---------------------------- MODULE Spec2Model ----------------------------
(***************************************************************************)
(* Model of the fakestore-app product list screen (ProductsScreen) and of  *)
(* its client-side query pipeline: the derived category list and the       *)
(* filtered and sorted product sequence, with request(), the fetch wrapper *)
(* that load() awaits; and of the product detail screen                    *)
(* (ProductDetailsScreen): its route id, its two fetches, its option chips *)
(* and its quantity.                                                       *)
(*                                                                         *)
(* A JavaScript string is a sequence of one-character strings, so that     *)
(* trim, toLowerCase, includes and localeCompare are computed and not      *)
(* assumed.  A field the JSON body does not carry is Undefined.            *)
(***************************************************************************)
EXTENDS Integers, Sequences, FiniteSets, TLC

VARIABLES
    state,              \* useState<UiState>: [status, message, data]
    refreshing,         \* useState(false)
    query,              \* useState('')
    category,           \* useState<string>('All')
    sort,               \* useState<SortKey>('none')
    inflight,           \* the calls of load() that await getProducts(), oldest first
    timers,             \* the setTimeout callbacks of request() that are armed
    crashed,            \* a render threw: the screen is gone
    products,           \* useMemo: the collection the pipeline reads
    categories,         \* useMemo: the derived category list
    filteredAndSorted,  \* useMemo: the list handed to FlatList
    rendered,           \* the component has rendered with the current state
    detail              \* ProductDetailsScreen: its route parameter, its useState
                        \* values and its calls of load() that await a response

\* the variables of ProductsScreen
listVars == <<state, refreshing, query, category, sort, inflight, timers, crashed,
              products, categories, filteredAndSorted, rendered>>

vars == <<state, refreshing, query, category, sort, inflight, timers, crashed,
          products, categories, filteredAndSorted, rendered, detail>>

-----------------------------------------------------------------------------
(* Bounds of the model *)

\* longest product collection of the pipeline specification
MaxLen == 3

\* most calls of load() awaiting their response at one time
MaxInFlight == 2

-----------------------------------------------------------------------------
(* JavaScript values *)

\* a property the object does not have
Undefined == <<"undefined">>

\* the JavaScript number NaN, as the result of Number() and of a comparator
NaN == [nan |-> TRUE, val |-> 0]

Num(n) == [nan |-> FALSE, val |-> n]

LowerCase == <<"a","b","c","d","e","f","g","h","i","j","k","l","m",
               "n","o","p","q","r","s","t","u","v","w","x","y","z">>

UpperCase == <<"A","B","C","D","E","F","G","H","I","J","K","L","M",
               "N","O","P","Q","R","S","T","U","V","W","X","Y","Z">>

Digits == <<"0","1","2","3","4","5","6","7","8","9">>

IndexIn(c, alphabet) ==
    IF \E i \in DOMAIN alphabet : alphabet[i] = c
    THEN CHOOSE i \in DOMAIN alphabet : alphabet[i] = c
    ELSE 0

\* the characters of the model's strings
Chars == {LowerCase[i] : i \in DOMAIN LowerCase} \cup {UpperCase[i] : i \in DOMAIN UpperCase}
            \cup {Digits[i] : i \in DOMAIN Digits} \cup {" "}

\* the lower case of each character: of a capital its small letter, of any
\* other character itself
LowerOf ==
    [c \in Chars |->
        IF IndexIn(c, UpperCase) > 0 THEN LowerCase[IndexIn(c, UpperCase)] ELSE c]

\* String.prototype.toLowerCase
toLowerCase(s) == [i \in DOMAIN s |-> IF s[i] \in Chars THEN LowerOf[s[i]] ELSE s[i]]

RECURSIVE trimStart(_)
trimStart(s) ==
    IF s # <<>> /\ Head(s) = " " THEN trimStart(Tail(s)) ELSE s

RECURSIVE trimEnd(_)
trimEnd(s) ==
    IF s # <<>> /\ s[Len(s)] = " " THEN trimEnd(SubSeq(s, 1, Len(s) - 1)) ELSE s

\* String.prototype.trim
trim(s) == trimEnd(trimStart(s))

\* String.prototype.includes
includes(hay, q) ==
    \E i \in 0..(Len(hay) - Len(q)) : SubSeq(hay, i + 1, i + Len(q)) = q

\* a ?? b that lets undefined through
CoalesceKeepsUndefined(a, b) == a

\* a ?? b
Coalesce(a, b) == IF a = Undefined THEN b ELSE a

\* the truthiness of a string property: undefined and '' are falsy
Truthy(s) == s # Undefined /\ s # <<>>

\* the collation weights of localeCompare: letters by alphabet position whatever
\* their case, the space before every letter; at equal letters the lower case
\* comes first
PrimaryWeightOf ==
    [c \in Chars |->
        IF c = " " THEN 0
        ELSE IF IndexIn(c, LowerCase) > 0 THEN 10 + IndexIn(c, LowerCase)
        ELSE IF IndexIn(c, UpperCase) > 0 THEN 10 + IndexIn(c, UpperCase)
        ELSE IndexIn(c, Digits)]

TertiaryWeightOf == [c \in Chars |-> IF IndexIn(c, UpperCase) > 0 THEN 1 ELSE 0]

\* a character outside the alphabet sorts after all of it
PrimaryWeight(c) == IF c \in Chars THEN PrimaryWeightOf[c] ELSE 99

TertiaryWeight(c) == IF c \in Chars THEN TertiaryWeightOf[c] ELSE 0

RECURSIVE LexCompare(_, _)
LexCompare(a, b) ==
    IF a = <<>> /\ b = <<>> THEN 0
    ELSE IF a = <<>> THEN -1
    ELSE IF b = <<>> THEN 1
    ELSE IF Head(a) < Head(b) THEN -1
    ELSE IF Head(a) > Head(b) THEN 1
    ELSE LexCompare(Tail(a), Tail(b))

\* String.prototype.localeCompare: negative, zero or positive
localeCompare(a, b) ==
    LET pa == [i \in DOMAIN a |-> PrimaryWeight(a[i])]
        pb == [i \in DOMAIN b |-> PrimaryWeight(b[i])]
        ta == [i \in DOMAIN a |-> TertiaryWeight(a[i])]
        tb == [i \in DOMAIN b |-> TertiaryWeight(b[i])]
    IN  IF LexCompare(pa, pb) # 0 THEN LexCompare(pa, pb) ELSE LexCompare(ta, tb)

\* the value of a decimal digit string, most significant digit first
RECURSIVE DigitsValue(_)
DigitsValue(s) ==
    IF s = <<>> THEN 0
    ELSE 10 * DigitsValue(SubSeq(s, 1, Len(s) - 1)) + (IndexIn(s[Len(s)], Digits) - 1)

\* Number(price): a JSON number is itself; a JSON string is trimmed and parsed,
\* '' giving 0 and anything that is not a decimal numeral giving NaN
Number(price) ==
    IF price[1] = "number" THEN Num(price[2])
    ELSE LET s == trim(price[2])
         IN  IF \A i \in DOMAIN s : IndexIn(s[i], Digits) > 0
             THEN Num(DigitsValue(s))
             ELSE NaN

\* a - b on JavaScript numbers
Minus(a, b) == IF a.nan \/ b.nan THEN NaN ELSE Num(a.val - b.val)

\* Array.prototype.sort reads the comparator's result v as: NaN is +0
ComparatorSign(v) == IF v.nan THEN 0 ELSE v.val

Range(s) == {s[i] : i \in DOMAIN s}


-----------------------------------------------------------------------------
(* The query pipeline of ProductsScreen *)

All == <<"A","l","l">>

SortKey == {"none", "price_asc", "price_desc", "title_asc", "title_desc"}

\* Comparator with the operands of title_desc in the order of title_asc
ComparatorTitleDescNotSwapped(key, a, b) ==
    CASE key = "price_asc"  -> Minus(Number(a.price), Number(b.price))
      [] key = "price_desc" -> Minus(Number(b.price), Number(a.price))
      [] key \in {"title_asc", "title_desc"} ->
            Num(localeCompare(Coalesce(a.title, <<>>), Coalesce(b.title, <<>>)))
      [] key = "category"   -> Num(localeCompare(a, b))

\* Comparator with the operands of price_desc in the order of price_asc
ComparatorPriceDescNotSwapped(key, a, b) ==
    CASE key \in {"price_asc", "price_desc"} ->
            Minus(Number(a.price), Number(b.price))
      [] key = "title_asc"  ->
            Num(localeCompare(Coalesce(a.title, <<>>), Coalesce(b.title, <<>>)))
      [] key = "title_desc" ->
            Num(localeCompare(Coalesce(b.title, <<>>), Coalesce(a.title, <<>>)))
      [] key = "category"   -> Num(localeCompare(a, b))

\* the comparator handed to Array.prototype.sort; "category" is the comparator
\* of the category list, the others are the cases of switch (sort)
Comparator(key, a, b) ==
    CASE key = "price_asc"  -> Minus(Number(a.price), Number(b.price))
      [] key = "price_desc" -> Minus(Number(b.price), Number(a.price))
      [] key = "title_asc"  ->
            Num(localeCompare(Coalesce(a.title, <<>>), Coalesce(b.title, <<>>)))
      [] key = "title_desc" ->
            Num(localeCompare(Coalesce(b.title, <<>>), Coalesce(a.title, <<>>)))
      [] key = "category"   -> Num(localeCompare(a, b))

\* SortInsert that drops an element comparing equal to one already placed
RECURSIVE SortInsertDropsTies(_, _, _)
SortInsertDropsTies(sorted, x, key) ==
    IF sorted = <<>> THEN <<x>>
    ELSE LET last == sorted[Len(sorted)]
             sign == ComparatorSign(Comparator(key, last, x))
         IN  IF sign > 0
             THEN Append(SortInsertDropsTies(SubSeq(sorted, 1, Len(sorted) - 1), x, key),
                         last)
             ELSE IF sign = 0 THEN sorted
             ELSE Append(sorted, x)

\* one step of the sort: x goes after every element that does not compare
\* greater than it, so elements that compare equal keep their order
RECURSIVE SortInsert(_, _, _)
SortInsert(sorted, x, key) ==
    IF sorted = <<>> THEN <<x>>
    ELSE LET last == sorted[Len(sorted)]
         IN  IF ComparatorSign(Comparator(key, last, x)) > 0
             THEN Append(SortInsert(SubSeq(sorted, 1, Len(sorted) - 1), x, key), last)
             ELSE Append(sorted, x)

\* Array.prototype.sort(comparator): a stable sort
RECURSIVE ArraySort(_, _)
ArraySort(arr, key) ==
    IF arr = <<>> THEN <<>>
    ELSE SortInsert(ArraySort(SubSeq(arr, 1, Len(arr) - 1), key), arr[Len(arr)], key)

\* matchesCategory without the 'All' case
matchesCategoryNoAll(p, cat) == p.category = cat

\* matchesCategory that lets the items without category through
matchesCategoryMissingPasses(p, cat) ==
    IF cat = All THEN TRUE ELSE p.category = cat \/ p.category = Undefined

matchesCategory(p, cat) == IF cat = All THEN TRUE ELSE p.category = cat

\* matchesQuery on the fields as they are, not lowercased
matchesQueryCaseSensitive(p, q) ==
    LET hayTitle == Coalesce(p.title, <<>>)
        hayDesc  == Coalesce(p.description, <<>>)
    IN  IF Len(q) = 0 THEN TRUE ELSE includes(hayTitle, q) \/ includes(hayDesc, q)

matchesQuery(p, q) ==
    LET hayTitle == toLowerCase(Coalesce(p.title, <<>>))
        hayDesc  == toLowerCase(Coalesce(p.description, <<>>))
    IN  IF Len(q) = 0 THEN TRUE ELSE includes(hayTitle, q) \/ includes(hayDesc, q)

\* products.filter((p) => matchesCategory && matchesQuery)
RECURSIVE ArrayFilter(_, _, _)
ArrayFilter(arr, cat, q) ==
    IF arr = <<>> THEN <<>>
    ELSE LET rest == ArrayFilter(Tail(arr), cat, q)
         IN  IF matchesCategory(Head(arr), cat) /\ matchesQuery(Head(arr), q)
             THEN <<Head(arr)>> \o rest
             ELSE rest

\* SortSwitch with the descending keys as the ascending sort reversed
SortSwitchDescByReversal(arr, sortKey) ==
    LET rev(seq) == [i \in DOMAIN seq |-> seq[Len(seq) + 1 - i]]
    IN  CASE sortKey = "price_asc"  -> ArraySort(arr, "price_asc")
          [] sortKey = "price_desc" -> rev(ArraySort(arr, "price_asc"))
          [] sortKey = "title_asc"  -> ArraySort(arr, "title_asc")
          [] sortKey = "title_desc" -> rev(ArraySort(arr, "title_asc"))
          [] OTHER -> arr

\* SortSwitch whose default case falls into the price sort
SortSwitchDefaultSorts(arr, sortKey) ==
    IF sortKey \in {"price_asc", "price_desc", "title_asc", "title_desc"}
    THEN ArraySort(arr, sortKey)
    ELSE ArraySort(arr, "price_asc")

\* switch (sort) on the copy arr
SortSwitch(arr, sortKey) ==
    IF sortKey \in {"price_asc", "price_desc", "title_asc", "title_desc"}
    THEN ArraySort(arr, sortKey)
    ELSE arr

\* filteredAndSortedRun that sorts the array it was given and then filters it
filteredAndSortedRunInPlace(prods, text, cat, sortKey) ==
    LET q      == toLowerCase(trim(text))
        sorted == SortSwitch(prods, sortKey)
    IN  [products |-> sorted, arr |-> ArrayFilter(sorted, cat, q)]

\* one run of the filteredAndSorted callback on the array prods: arr is what it
\* returns, products is the array it was given as the run leaves it (sort works
\* in place, on the copy [...base])
filteredAndSortedRun(prods, text, cat, sortKey) ==
    LET q    == toLowerCase(trim(text))
        base == ArrayFilter(prods, cat, q)
    IN  [products |-> prods, arr |-> SortSwitch(base, sortKey)]

\* CategorySet without the test if (p.category)
RECURSIVE CategorySetNoTest(_, _)
CategorySetNoTest(prods, set) ==
    IF prods = <<>> THEN set
    ELSE LET c == Head(prods).category
         IN  CategorySetNoTest(Tail(prods),
                               IF c \notin Range(set) THEN Append(set, c) ELSE set)

\* the sign Array.prototype.sort reads off the comparator for a and b
SortSign(key, a, b) == ComparatorSign(Comparator(key, a, b))

\* ECMAScript's consistent comparator, sign being the signs over the places S
\* of the array:
\* the sign is reflexive and symmetric where it is zero, and transitive where
\* it is zero, negative or positive.  Only then is the sorted order defined.
ConsistentSigns(S, sign) ==
    /\ \A a \in S : sign[a, a] = 0
    /\ \A a, b \in S :
          /\ sign[a, b] = 0 => sign[b, a] = 0
          /\ sign[a, b] < 0 <=> sign[b, a] > 0
    /\ \A a, b, c \in S :
          /\ sign[a, b] = 0 /\ sign[b, c] = 0 => sign[a, c] = 0
          /\ sign[a, b] < 0 /\ sign[b, c] < 0 => sign[a, c] < 0
          /\ sign[a, b] > 0 /\ sign[b, c] > 0 => sign[a, c] > 0

\* the comparator is called once for each pair of places
ConsistentComparator(arr, key) ==
    \A sign \in {[i \in DOMAIN arr, j \in DOMAIN arr |-> SortSign(key, arr[i], arr[j])]} :
        ConsistentSigns(DOMAIN arr, sign)

\* the orders of the elements of arr
Orderings(arr) ==
    {[i \in DOMAIN arr |-> arr[f[i]]] : f \in Permutations(DOMAIN arr)}

\* SortOutcomes that leaves out the items whose price is not a number
SortOutcomesDropsNaN(sorted, sortKey) ==
    LET numeric(p) == ~Number(p.price).nan
    IN  {SelectSeq(sorted, numeric)}

\* what arr.sort(comparator) may leave in arr, sorted being what the stable
\* sort gives: with a consistent comparator that; with an inconsistent one (a
\* price that is NaN among prices that differ) the order is
\* implementation-defined, any order of the same elements
SortOutcomes(sorted, sortKey) ==
    IF sortKey = "none" \/ ConsistentComparator(sorted, sortKey)
    THEN {sorted}
    ELSE Orderings(sorted)

\* the runs of the filteredAndSorted callback an engine may make
filteredAndSortedRuns(prods, text, cat, sortKey) ==
    LET run == filteredAndSortedRun(prods, text, cat, sortKey)
    IN  {[products |-> run.products, arr |-> a] : a \in SortOutcomes(run.arr, sortKey)}

\* new Set<string>() filled in collection order: Array.from gives insertion order
RECURSIVE CategorySet(_, _)
CategorySet(prods, set) ==
    IF prods = <<>> THEN set
    ELSE LET c == Head(prods).category
         IN  CategorySet(Tail(prods),
                         IF Truthy(c) /\ c \notin Range(set) THEN Append(set, c) ELSE set)

\* the categories callback
categoriesOf(prods) == <<All>> \o ArraySort(CategorySet(prods, <<>>), "category")


-----------------------------------------------------------------------------
(* The products, texts and categories the model draws its inputs from *)

Product(id, title, description, cat, price) ==
    [id |-> id, title |-> title, description |-> description,
     category |-> cat, price |-> price]

RedShirt == <<"R","e","d"," ","S","h","i","r","t">>
BlueHat  == <<"B","l","u","e"," ","H","a","t">>
blueHat  == <<"b","l","u","e"," ","h","a","t">>
men      == <<"m","e","n">>
Men      == <<"M","e","n">>
women    == <<"w","o","m","e","n">>
kids     == <<"k","i","d","s">>

\* equal prices (20 as a number and as a string, 10 twice), equal titles, titles
\* that differ by case only, categories that differ by case only, and products
\* without title, description or category
P1 == Product(1, RedShirt, <<"c","o","t","t","o","n">>, men, <<"number", 20>>)
P2 == Product(2, BlueHat, <<"r","e","d"," ","b","a","n","d">>, women, <<"number", 10>>)
P3 == Product(3, BlueHat, <<>>, Men, <<"string", <<"2","0">>>>)
P4 == Product(4, Undefined, Undefined, Undefined, <<"number", 10>>)
P5 == Product(5, <<>>, <<"R","E","D">>, <<>>, <<"number", 30>>)
P6 == Product(6, blueHat, <<"h","a","t">>, women, <<"number", 5>>)

Catalog == {P1, P2, P3, P4, P5, P6}

\* products whose price does not coerce to a number
P7 == Product(7, RedShirt, <<>>, men, <<"string", <<"a","b","c">>>>)
P8 == Product(8, BlueHat, <<>>, men, <<"string", <<"1","2","x">>>>)

\* a catalog with malformed prices among well-formed ones
CatalogNaN == {P1, P2, P6, P7, P8}

\* the collections of at most n products of S with distinct ids
CollectionsOf(S, n) ==
    {s \in UNION {[1..k -> S] : k \in 0..n} :
        \A i, j \in DOMAIN s : i # j => s[i] # s[j]}

\* the collections of at most n products with distinct ids
Collections(n) == CollectionsOf(Catalog, n)

\* what the user may type: nothing, blanks, a word in another case inside
\* blanks, a word of a title, a word of no product
Texts == { <<>>, <<" "," ">>, <<" ","R","e","D"," ">>, <<"h","a","t">>, <<"z","z">> }

\* the values the category state is drawn from in the pipeline specification
CategoryInputs == {All, men, Men, women, kids}

\* the collections the server answers /products with, in the screen specification
ServedCatalogs == { <<P1, P2>>, <<P2, P3, P1, P4>>, <<P5, P6, P4, P2>>, <<>> }

-----------------------------------------------------------------------------
(* request(), the fetch wrapper behind getProducts() *)

\* A JavaScript value as request() returns it: its type, and the list when it
\* is an array, the characters when it is a string, the message property when
\* it is an object (hasMessage: the object has one)
JsArray(d)   == [type |-> "array",  list |-> d,    text |-> "", hasMessage |-> FALSE]
JsNull       == [type |-> "null",   list |-> <<>>, text |-> "", hasMessage |-> FALSE]
JsString(t)  == [type |-> "string", list |-> <<>>, text |-> t,  hasMessage |-> FALSE]
JsObject(m)  == [type |-> "object", list |-> <<>>, text |-> m,  hasMessage |-> TRUE]
JsEmptyObject == [type |-> "object", list |-> <<>>, text |-> "", hasMessage |-> FALSE]

\* the messages of the errors fetch() rejects with when the network fails
ErrorMessages == {"Network request failed"}

TimeoutMessage == "Temps de réponse dépassé (timeout)."

UnknownMessage == "Erreur inconnue"

\* the template `Erreur API (${res.status})`
ApiErrorMessage(status) ==
    CASE status = 404 -> "Erreur API (404)"
      [] status = 500 -> "Erreur API (500)"
      [] OTHER        -> "Erreur API"

\* contentType.includes('application/json'); a missing header is ''
IsJsonContentType(contentType) ==
    contentType \in {"application/json", "application/json; charset=utf-8"}

\* what fetch() does: it resolves with a response, or rejects
Response(status, contentType, body, bodyFails) ==
    [kind |-> "response", status |-> status, contentType |-> contentType,
     body |-> body, bodyFails |-> bodyFails, message |-> ""]

\* fetch() rejects with an Error, with a value that is not an Error, or, the
\* controller having aborted, with the DOMException AbortError
RejectError(m) ==
    [kind |-> "error", status |-> 0, contentType |-> "", body |-> JsNull,
     bodyFails |-> FALSE, message |-> m]

RejectOther ==
    [kind |-> "other", status |-> 0, contentType |-> "", body |-> JsNull,
     bodyFails |-> FALSE, message |-> ""]

RejectAbort ==
    [kind |-> "abort", status |-> 0, contentType |-> "", body |-> JsNull,
     bodyFails |-> FALSE, message |-> ""]

\* the answers of the server and of the network: the served collections; a 200
\* whose JSON cannot be read; a 200 that is a page of text; a 200 whose text
\* cannot be read; errors with a message, with an empty one, with none, with
\* a body that cannot be read, with a text body, with an empty text body
Responses ==
    {Response(200, "application/json; charset=utf-8", JsArray(d), FALSE) : d \in ServedCatalogs}
    \cup {Response(200, "application/json", JsNull, TRUE),
          Response(200, "text/html", JsString("<html>"), FALSE),
          Response(200, "", JsString(""), TRUE),
          Response(404, "application/json", JsObject("Not found"), FALSE),
          Response(500, "application/json", JsObject(""), FALSE),
          Response(500, "application/json", JsEmptyObject, FALSE),
          Response(500, "application/json", JsNull, TRUE),
          Response(500, "text/plain", JsString("Internal Server Error"), FALSE),
          Response(404, "text/plain", JsString(""), FALSE)}
    \cup {RejectError(m) : m \in ErrorMessages}
    \cup {RejectOther}

\* how request() ends: it returns body, or throws an Error with a message
Returned(body) == [ok |-> TRUE, data |-> body.list, dataType |-> body.type, message |-> ""]

Threw(m) == [ok |-> FALSE, data |-> <<>>, dataType |-> "undefined", message |-> m]

\* res.ok
ResponseOk(status) == status >= 200 /\ status <= 299

\* const body = isJson ? await res.json().catch(() => null)
\*                     : await res.text().catch(() => '')
BodyOf(r) ==
    IF IsJsonContentType(r.contentType)
    THEN IF r.bodyFails THEN JsNull ELSE r.body
    ELSE IF r.bodyFails THEN JsString("") ELSE r.body

\* apiMsg without its first operand: the message property of the body is not read
ApiMsgNoJsonMessage(body, status) ==
    IF body.type = "string" /\ body.text # "" THEN body.text
    ELSE ApiErrorMessage(status)

\* (body && typeof body === 'object' && body.message)
\*   || (typeof body === 'string' && body) || `Erreur API (${res.status})`
ApiMsg(body, status) ==
    IF body.type \in {"object", "array"} /\ body.hasMessage /\ body.text # ""
    THEN body.text
    ELSE IF body.type = "string" /\ body.text # "" THEN body.text
    ELSE ApiErrorMessage(status)

\* request(path), given what fetch() does
request(r) ==
    CASE r.kind = "abort" -> Threw(TimeoutMessage)
      [] r.kind = "error" -> Threw(r.message)
      [] r.kind = "other" -> Threw(UnknownMessage)
      [] r.kind = "response" ->
            IF ~ResponseOk(r.status)
            THEN Threw(ApiMsg(BodyOf(r), r.status))
            ELSE Returned(BodyOf(r))

\* the outcomes of await getProducts() when fetch() settles before the timer
GetProductsOutcomes == {request(r) : r \in Responses}

\* request() without its finally block: the timer stays armed
TimersAfterSettleNoClear(n) == n

\* clearTimeout(timeout) in the finally block: one armed timer less
TimersAfterSettle(n) == n - 1

-----------------------------------------------------------------------------
(* ProductDetailsScreen: its inputs and the functions it computes *)

electronics == <<"e","l","e","c","t","r","o","n","i","c","s">>
jewelery    == <<"j","e","w","e","l","e","r","y">>

\* products of the categories getDefaultOptions tells apart
P9  == Product(9, RedShirt, <<>>, electronics, <<"number", 99>>)
P10 == Product(10, BlueHat, <<>>, jewelery, <<"number", 50>>)
P11 == Product(11, blueHat, <<>>, kids, <<"number", 15>>)

\* the product the server keeps under each id it knows: of men's clothing,
\* without a category, with the category '', of electronics, of jewelery, of a
\* category getDefaultOptions has no case for
ServedProducts == [n \in {1, 4, 5, 9, 10, 11} |->
    CASE n = 1 -> P1 [] n = 4 -> P4 [] n = 5 -> P5
      [] n = 9 -> P9 [] n = 10 -> P10 [] n = 11 -> P11]

\* params.id as useLocalSearchParams gives it: missing, a list of strings, or
\* a string: empty, '0', no number, an id in blanks, the ids the server knows
RouteParams ==
    { Undefined, <<"array">>, <<"string", <<>>>>, <<"string", <<"0">>>>,
      <<"string", <<"a","b","c">>>>, <<"string", <<" ","1"," ">>>>,
      <<"string", <<"4">>>>, <<"string", <<"5">>>>, <<"string", <<"9">>>>,
      <<"string", <<"1","0">>>>, <<"string", <<"1","1">>>> }

\* a number or null
Null == [null |-> TRUE, val |-> 0]

\* the id memo: typeof raw === 'string' ? Number(raw) : NaN, and
\* Number.isFinite(n) ? n : null
idOf(raw) ==
    LET n == IF raw[1] = "string" THEN Number(raw) ELSE NaN
    IN  IF ~n.nan THEN [null |-> FALSE, val |-> n.val] ELSE Null

\* a test of the id for null alone
IdIsFalsyOnlyNull(id) == id.null

\* !id: null and 0 are falsy
IdIsFalsy(id) == id.null \/ id.val = 0

InvalidIdMessage == "ID produit invalide."

\* getDefaultOptions: the options by the words its category holds
getDefaultOptions(cat) ==
    LET c == toLowerCase(Coalesce(cat, <<>>))
    IN  IF includes(c, men) \/ includes(c, women)
        THEN [colors |-> <<"Noir", "Blanc", "Beige", "Bleu", "Vert">>,
              sizes  |-> <<"XS", "S", "M", "L", "XL">>]
        ELSE IF includes(c, electronics)
        THEN [colors |-> <<"Noir", "Argent", "Blanc">>, sizes |-> <<"Standard">>]
        ELSE IF includes(c, <<"j","e","w","e","l">>)
        THEN [colors |-> <<"Or", "Argent", "Rose gold">>, sizes |-> <<"Unique">>]
        ELSE [colors |-> <<"Noir", "Blanc", "Beige">>, sizes |-> <<"Standard">>]

\* the fallback whatever the list holds
FirstOrFallback(list, fallback) == fallback

\* defaults.colors[0] ?? 'Noir' and defaults.sizes[0] ?? 'M'
FirstOr(list, fallback) == IF list = <<>> THEN fallback ELSE list[1]

\* the most items of the similar list: slice(0, 12)
SimilarMax == 12

\* list.slice(0, 12) without the filter
SimilarOfNoFilter(list, product) ==
    SubSeq(list, 1, IF Len(list) < SimilarMax THEN Len(list) ELSE SimilarMax)

\* list.filter((p) => p.id !== product.id).slice(0, 12)
SimilarOf(list, product) ==
    LET other(p) == p.id # product.id
        kept == SelectSeq(list, other)
    IN  SubSeq(kept, 1, IF Len(kept) < SimilarMax THEN Len(kept) ELSE SimilarMax)

\* a product as the body of a response
JsProduct(p) == [type |-> "object", list |-> <<p>>, text |-> "", hasMessage |-> FALSE]

\* the answers to GET /products/<n>: the product; a 200 whose JSON cannot be
\* read; a 200 that is a page of text; a 404 with a message; a network error;
\* no answer within the 12 seconds
ProductResponses(n) ==
    {Response(200, "application/json; charset=utf-8", JsProduct(ServedProducts[n]), FALSE),
     Response(200, "application/json", JsNull, TRUE),
     Response(200, "text/html", JsString("<html>"), FALSE),
     Response(404, "application/json", JsObject("Not found"), FALSE),
     RejectAbort}
    \cup {RejectError(m) : m \in ErrorMessages}

\* getProductById(id)
getProductByIdOutcomes(n) == {request(r) : r \in ProductResponses(n)}

\* products of other ids, as the server lists them in a category
OtherProduct(k) == Product(100 + k, BlueHat, <<>>, women, <<"number", 10>>)

\* the lists of a category the displayed product p is in: none; a short one
\* with p inside; one that is still longer than the similar list may be once
\* p is taken out
CategoryLists(p) ==
    { <<>>,
      <<OtherProduct(1), p, OtherProduct(2)>>,
      [k \in 1..(SimilarMax + 2) |-> IF k = 3 THEN p ELSE OtherProduct(k)] }

\* the answers to the request for the products of a category
CategoryResponses(p) ==
    {Response(200, "application/json; charset=utf-8", JsArray(l), FALSE) : l \in CategoryLists(p)}
    \cup {Response(200, "application/json", JsNull, TRUE),
          Response(500, "text/plain", JsString("Internal Server Error"), FALSE),
          RejectAbort}

\* getProductsByCategory(category), for the category of product p
getProductsByCategoryOutcomes(p) == {request(r) : r \in CategoryResponses(p)}

\* the outcomes of the two requests for each product the server keeps,
\* computed once and looked up
ProductOutcomes == [n \in DOMAIN ServedProducts |-> getProductByIdOutcomes(n)]

SimilarOutcomes ==
    [n \in DOMAIN ServedProducts |-> getProductsByCategoryOutcomes(ServedProducts[n])]

AllProductOutcomes == UNION {ProductOutcomes[n] : n \in DOMAIN ServedProducts}

AllSimilarOutcomes == UNION {SimilarOutcomes[n] : n \in DOMAIN ServedProducts}

\* the message of the TypeError a property read on null or a call of a method
\* the value does not have throws
TypeErrorMessage == "TypeError"

-----------------------------------------------------------------------------
(* ProductsScreen *)

\* dataType is the JavaScript type of the data property: "undefined" where the
\* variant has none
Loading      == [status |-> "loading", message |-> "", data |-> <<>>, dataType |-> "undefined"]
Error(m)     == [status |-> "error",   message |-> m,  data |-> <<>>, dataType |-> "undefined"]
Success(d)   == [status |-> "success", message |-> "", data |-> d,    dataType |-> "array"]

\* ProductDetailsScreen as it mounts for the route parameter raw: the initial
\* values of its useState hooks, and no call of load() yet.  Its state holds
\* the product as a list of one.
Mounted(raw) ==
    [mounted |-> TRUE, params |-> raw, state |-> Loading, refreshing |-> FALSE,
     color |-> "Noir", size |-> "M", qty |-> 1,
     similar |-> <<>>, similarLoading |-> FALSE, inflight |-> <<>>]

\* no detail screen is on the stack
DetailUnmounted == [Mounted(Undefined) EXCEPT !.mounted = FALSE]

\* SettledState that leaves the loading view up when getProducts() failed
SettledStateKeepsLoading(outcome) ==
    IF outcome.ok
    THEN [status |-> "success", message |-> "", data |-> outcome.data,
          dataType |-> outcome.dataType]
    ELSE Loading

\* the state load() sets when getProducts() has ended with outcome: data is
\* whatever request() returned
SettledState(outcome) ==
    IF outcome.ok
    THEN [status |-> "success", message |-> "", data |-> outcome.data,
          dataType |-> outcome.dataType]
    ELSE Error(outcome.message)

\* the render throws a TypeError when state.data is not an array: for...of on
\* null or on an object, products.filter on a string
RenderThrows(st) == st.status = "success" /\ st.dataType # "array"

\* const products = useMemo(() => (state.status === 'success' ? state.data : []), [state])
productsOf(st) == IF st.status = "success" THEN st.data ELSE <<>>

\* filteredAndSorted is a function of its four dependencies alone: its runs on
\* the collections the server serves are computed once and looked up
ServedRuns ==
    [prods \in ServedCatalogs, q \in Texts, c \in CategoryInputs, s \in SortKey |->
        filteredAndSortedRuns(prods, q, c, s)]

\* the outcomes of one run of the filteredAndSorted callback
RunsOf(prods, q, c, s) ==
    IF prods \in ServedCatalogs /\ q \in Texts /\ c \in CategoryInputs /\ s \in SortKey
    THEN ServedRuns[prods, q, c, s]
    ELSE filteredAndSortedRuns(prods, q, c, s)

\* Render whose filteredAndSorted hook leaves sort out of its dependencies
RenderStaleSort(st, q, c, s) ==
    IF RenderThrows(st)
    THEN /\ state' = st
         /\ crashed' = TRUE
         /\ UNCHANGED <<products, categories, filteredAndSorted, rendered, detail>>
    ELSE
    LET prods == IF ~rendered \/ st # state THEN productsOf(st) ELSE products
        rerun == ~rendered \/ <<prods, q, c>> # <<products, query, category>>
    IN  \E run \in IF rerun
                    THEN RunsOf(prods, q, c, s)
                    ELSE {[products |-> prods, arr |-> filteredAndSorted]} :
            /\ products' = run.products
            /\ state' = IF rerun /\ st.status = "success"
                        THEN [st EXCEPT !.data = run.products]
                        ELSE st
            /\ categories' = IF ~rendered \/ run.products # products
                             THEN categoriesOf(run.products)
                             ELSE categories
            /\ filteredAndSorted' = run.arr
            /\ rendered' = TRUE
            /\ crashed' = crashed
            /\ detail' = detail

\* The render that follows a handler: the three useMemo hooks, each recomputed
\* when one of its dependencies changed.  st, q, c, s are the state, query,
\* category and sort the handler has set.  Nothing in ProductsScreen reaches
\* the state of the detail screen.
Render(st, q, c, s) ==
    IF RenderThrows(st)
    THEN /\ state' = st
         /\ crashed' = TRUE
         /\ UNCHANGED <<products, categories, filteredAndSorted, rendered, detail>>
    ELSE
    LET prods == IF ~rendered \/ st # state THEN productsOf(st) ELSE products
        rerun == ~rendered \/ <<prods, q, c, s>> # <<products, query, category, sort>>
    IN  \E run \in IF rerun
                    THEN RunsOf(prods, q, c, s)
                    ELSE {[products |-> prods, arr |-> filteredAndSorted]} :
            /\ products' = run.products
            /\ state' = IF rerun /\ st.status = "success"
                        THEN [st EXCEPT !.data = run.products]
                        ELSE st
            /\ categories' = IF ~rendered \/ run.products # products
                             THEN categoriesOf(run.products)
                             ELSE categories
            /\ filteredAndSorted' = run.arr
            /\ rendered' = TRUE
            /\ crashed' = crashed
            /\ detail' = detail

\* the state after the first render and its effect: load() awaits getProducts()
Init ==
    /\ state = Loading
    /\ refreshing = FALSE
    /\ query = <<>>
    /\ category = All
    /\ sort = "none"
    /\ inflight = << [refresh |-> FALSE, stale |-> FALSE] >>
    /\ timers = 1
    /\ crashed = FALSE
    /\ products = <<>>
    /\ categories = <<All>>
    /\ filteredAndSorted = <<>>
    /\ rendered = TRUE
    /\ detail = DetailUnmounted

\* the success view, with the list, its header and its RefreshControl, is on
\* screen; once a render has thrown there is no screen left to act on
ListShown == state.status = "success" /\ ~crashed

\* the pending calls after the i-th has ended: the calls made before it are
\* from now on stale, a call made after them has ended first
AfterSettle(calls, i) ==
    [k \in 1..(Len(calls) - 1) |->
        IF k < i THEN [calls[k] EXCEPT !.stale = TRUE] ELSE calls[k + 1]]

\* load(), from its await on: the i-th pending call gets its outcome; request()
\* clears its timer; when onRefresh made the call, its finally block runs too
load(i, outcome) ==
    /\ ~crashed
    /\ i \in DOMAIN inflight
    /\ inflight' = AfterSettle(inflight, i)
    /\ timers' = TimersAfterSettle(timers)
    /\ refreshing' = IF inflight[i].refresh THEN FALSE ELSE refreshing
    /\ UNCHANGED <<query, category, sort>>
    /\ Render(SettledState(outcome), query, category, sort)

\* the 12-second timer of the i-th pending request fires before fetch() has
\* settled: controller.abort() makes fetch() reject, and load() goes on with
\* what request() throws
TimerFires(i) ==
    /\ ~crashed
    /\ i \in DOMAIN inflight
    /\ timers > 0
    /\ inflight' = AfterSettle(inflight, i)
    /\ timers' = timers - 1
    /\ refreshing' = IF inflight[i].refresh THEN FALSE ELSE refreshing
    /\ UNCHANGED <<query, category, sort>>
    /\ Render(SettledState(request(RejectAbort)), query, category, sort)

\* the Réessayer button of the error view: onPress={load}, up to its await
Retry ==
    /\ state.status = "error"
    /\ Len(inflight) < MaxInFlight
    /\ inflight' = Append(inflight, [refresh |-> FALSE, stale |-> FALSE])
    /\ timers' = timers + 1
    /\ UNCHANGED <<refreshing, query, category, sort>>
    /\ Render(state, query, category, sort)

\* onRefresh that puts the loading view back up while it awaits
onRefreshShowsLoading ==
    /\ ListShown
    /\ Len(inflight) < MaxInFlight
    /\ refreshing' = TRUE
    /\ inflight' = Append(inflight, [refresh |-> TRUE, stale |-> FALSE])
    /\ timers' = timers + 1
    /\ UNCHANGED <<query, category, sort>>
    /\ Render(Loading, query, category, sort)

\* onRefresh, up to the await inside load()
onRefresh ==
    /\ ListShown
    /\ Len(inflight) < MaxInFlight
    /\ refreshing' = TRUE
    /\ inflight' = Append(inflight, [refresh |-> TRUE, stale |-> FALSE])
    /\ timers' = timers + 1
    /\ UNCHANGED <<query, category, sort>>
    /\ Render(state, query, category, sort)

\* onChangeText={setQuery}
setQuery(text) ==
    /\ ListShown
    /\ query' = text
    /\ UNCHANGED <<refreshing, category, sort, inflight, timers>>
    /\ Render(state, text, category, sort)

\* a category chip: onPress={() => setCategory(c)}, c an entry of categories
setCategory(c) ==
    /\ ListShown
    /\ c \in Range(categories)
    /\ category' = c
    /\ UNCHANGED <<refreshing, query, sort, inflight, timers>>
    /\ Render(state, query, c, sort)

\* the three sort buttons
NextSort(button) ==
    CASE button = "default" -> "none"
      [] button = "price"   -> IF sort = "price_asc" THEN "price_desc" ELSE "price_asc"
      [] button = "title"   -> IF sort = "title_asc" THEN "title_desc" ELSE "title_asc"

setSort(button) ==
    /\ ListShown
    /\ sort' = NextSort(button)
    /\ UNCHANGED <<refreshing, query, category, inflight, timers>>
    /\ Render(state, query, category, sort')

\* ClearedCriteria that leaves the sort key as it is
ClearedCriteriaKeepsSort == [query |-> <<>>, category |-> All, sort |-> sort]

\* what clearFilters sets: query, category, sort
ClearedCriteria == [query |-> <<>>, category |-> All, sort |-> "none"]

\* the Reset and Réinitialiser buttons
clearFilters ==
    /\ ListShown
    /\ query' = ClearedCriteria.query
    /\ category' = ClearedCriteria.category
    /\ sort' = ClearedCriteria.sort
    /\ UNCHANGED <<refreshing, inflight, timers>>
    /\ Render(state, query', category', sort')

Next ==
    \/ \E i \in 1..MaxInFlight, o \in GetProductsOutcomes : load(i, o)
    \/ \E i \in 1..MaxInFlight : TimerFires(i)
    \/ Retry
    \/ onRefresh
    \/ \E t \in Texts : setQuery(t)
    \/ \E c \in Range(categories) : setCategory(c)
    \/ \E b \in {"default", "price", "title"} : setSort(b)
    \/ clearFilters

Spec == Init /\ [][Next]_vars

\* the request pending longest ends: fetch() settles, or else the timer fires
Settles ==
    (\E o \in GetProductsOutcomes : load(1, o)) \/ TimerFires(1)

\* the screen under the assumption that no request pends forever: the
\* 12-second timer bounds the wait for fetch()
SpecFair == Spec /\ WF_vars(Settles)

-----------------------------------------------------------------------------
(* The pipeline as a function of its inputs: any collection, any criteria *)

InitPipeline ==
    /\ state \in {Success(d) : d \in Collections(MaxLen)}
    /\ refreshing = FALSE
    /\ query \in Texts
    /\ category \in CategoryInputs
    /\ sort \in SortKey
    /\ inflight = <<>>
    /\ timers = 0
    /\ crashed = FALSE
    /\ products = <<>>
    /\ categories = <<>>
    /\ filteredAndSorted = <<>>
    /\ rendered = FALSE
    /\ detail = DetailUnmounted

\* the component renders with that state: the memo hooks run
RunPipeline ==
    /\ ~rendered
    /\ UNCHANGED <<refreshing, query, category, sort, inflight, timers>>
    /\ Render(state, query, category, sort)

\* then the user works the header of the list
NextPipeline ==
    \/ RunPipeline
    \/ rendered /\ \E t \in Texts : setQuery(t)
    \/ rendered /\ \E c \in Range(categories) : setCategory(c)
    \/ rendered /\ \E b \in {"default", "price", "title"} : setSort(b)
    \/ rendered /\ clearFilters

SpecPipeline == InitPipeline /\ [][NextPipeline]_vars

-----------------------------------------------------------------------------
(* The pipeline on collections with malformed prices *)

InitNaN ==
    /\ state \in {Success(d) : d \in CollectionsOf(CatalogNaN, MaxLen)}
    /\ refreshing = FALSE
    /\ query \in {<<>>, <<"h","a","t">>}
    /\ category \in {All, men}
    /\ sort \in SortKey
    /\ inflight = <<>>
    /\ timers = 0
    /\ crashed = FALSE
    /\ products = <<>>
    /\ categories = <<>>
    /\ filteredAndSorted = <<>>
    /\ rendered = FALSE
    /\ detail = DetailUnmounted

NextNaN ==
    \/ RunPipeline
    \/ rendered /\ \E b \in {"default", "price", "title"} : setSort(b)

SpecNaN == InitNaN /\ [][NextNaN]_vars


-----------------------------------------------------------------------------
(* ProductDetailsScreen.  The state updates of one run of load() between two
   awaits are applied together, as React applies them in one render. *)

\* the largest quantity the model lets the plus button reach
MaxQty == 3

\* the category of the product on display; a body that is no object has none
CategoryOfData(st) ==
    IF st.dataType = "object" THEN st.data[1].category ELSE Undefined

\* const options = getDefaultOptions(product.category), in the render
optionsOf(d) == getDefaultOptions(CategoryOfData(d.state))

\* the success view, with the chips, the quantity row and the RefreshControl
DetailShown == detail.mounted /\ detail.state.status = "success"

\* load(), up to its first await: with a falsy id the error state and no fetch,
\* else the loading state and the call of getProductById(id)
detailLoad(d, refresh) ==
    LET id == idOf(d.params)
    IN  IF IdIsFalsy(id)
        THEN [d EXCEPT !.state = Error(InvalidIdMessage)]
        ELSE [d EXCEPT !.state = Loading,
                       !.inflight = Append(@, [phase |-> "product", refresh |-> refresh,
                                               id |-> id.val, product |-> <<>>])]

\* the calls still pending when the i-th has ended
RemoveAt(calls, i) ==
    [k \in 1..(Len(calls) - 1) |-> IF k < i THEN calls[k] ELSE calls[k + 1]]

\* onRefresh without its finally block
EndedKeepsRefreshing(d, call) == d

\* load() has returned: when onRefresh awaited it, its finally block runs
Ended(d, call) == IF call.refresh THEN [d EXCEPT !.refreshing = FALSE] ELSE d

\* load() from the answer of getProductById on: the catch block on a failure
\* and on the TypeError of product.category when the body was null; else the
\* success state, the default options, the quantity 1, and either the call of
\* getProductsByCategory or the empty similar list
AfterProduct(d, i, o) ==
    LET call == d.inflight[i]
        rest == [d EXCEPT !.inflight = RemoveAt(@, i)]
    IN  IF ~o.ok THEN Ended([rest EXCEPT !.state = Error(o.message)], call)
        ELSE IF o.dataType = "null"
        THEN Ended([rest EXCEPT !.state = Error(TypeErrorMessage)], call)
        ELSE
        LET cat == IF o.dataType = "object" THEN o.data[1].category ELSE Undefined
            defaults == getDefaultOptions(cat)
            shown == [d EXCEPT !.state = [status |-> "success", message |-> "",
                                          data |-> o.data, dataType |-> o.dataType],
                               !.color = FirstOr(defaults.colors, "Noir"),
                               !.size = FirstOr(defaults.sizes, "M"),
                               !.qty = 1]
        IN  IF Truthy(cat)
            THEN [shown EXCEPT !.similarLoading = TRUE,
                               !.inflight[i] = [phase |-> "similar", refresh |-> call.refresh,
                                                id |-> call.id, product |-> o.data]]
            ELSE Ended([shown EXCEPT !.similar = <<>>, !.inflight = RemoveAt(@, i)], call)

\* AfterSimilar with setSimilarLoading(false) after setSimilar in the try block
\* instead of in a finally block
AfterSimilarNoFinally(d, i, o) ==
    LET call == d.inflight[i]
        rest == [d EXCEPT !.inflight = RemoveAt(@, i)]
    IN  IF o.ok /\ o.dataType = "array"
        THEN Ended([rest EXCEPT !.similar = SimilarOf(o.data, call.product[1]),
                                !.similarLoading = FALSE], call)
        ELSE IF o.ok
        THEN Ended([rest EXCEPT !.state = Error(TypeErrorMessage)], call)
        ELSE Ended([rest EXCEPT !.state = Error(o.message)], call)

\* load() from the answer of getProductsByCategory on: setSimilar, the finally
\* block, and the catch block on a failure or on the TypeError of list.filter
\* when the body was no array
AfterSimilar(d, i, o) ==
    LET call == d.inflight[i]
        rest == [d EXCEPT !.inflight = RemoveAt(@, i), !.similarLoading = FALSE]
    IN  IF o.ok /\ o.dataType = "array"
        THEN Ended([rest EXCEPT !.similar = SimilarOf(o.data, call.product[1])], call)
        ELSE IF o.ok
        THEN Ended([rest EXCEPT !.state = Error(TypeErrorMessage)], call)
        ELSE Ended([rest EXCEPT !.state = Error(o.message)], call)

\* the screen after its first render and its effect, which calls load()
InitDetail ==
    /\ state = Loading
    /\ refreshing = FALSE
    /\ query = <<>>
    /\ category = All
    /\ sort = "none"
    /\ inflight = <<>>
    /\ timers = 0
    /\ crashed = FALSE
    /\ products = <<>>
    /\ categories = <<All>>
    /\ filteredAndSorted = <<>>
    /\ rendered = TRUE
    /\ detail \in {detailLoad(Mounted(raw), FALSE) : raw \in RouteParams}

\* getProductById settles for the i-th pending call
productFetched(i, o) ==
    /\ detail.mounted
    /\ i \in DOMAIN detail.inflight
    /\ detail.inflight[i].phase = "product"
    /\ o \in ProductOutcomes[detail.inflight[i].id]
    /\ detail' = AfterProduct(detail, i, o)
    /\ UNCHANGED listVars

\* getProductsByCategory settles for the i-th pending call
similarFetched(i, o) ==
    /\ detail.mounted
    /\ i \in DOMAIN detail.inflight
    /\ detail.inflight[i].phase = "similar"
    /\ o \in SimilarOutcomes[detail.inflight[i].id]
    /\ detail' = AfterSimilar(detail, i, o)
    /\ UNCHANGED listVars

\* the Réessayer button of the error view: onPress={load}
detailRetry ==
    /\ detail.mounted
    /\ detail.state.status = "error"
    /\ Len(detail.inflight) < MaxInFlight
    /\ detail' = detailLoad(detail, FALSE)
    /\ UNCHANGED listVars

\* onRefresh: setRefreshing(true), then load() up to its await; a load() that
\* returned at once lets the finally block run
detailOnRefresh ==
    /\ DetailShown
    /\ Len(detail.inflight) < MaxInFlight
    /\ LET d == detailLoad([detail EXCEPT !.refreshing = TRUE], TRUE)
       IN  detail' = IF Len(d.inflight) = Len(detail.inflight)
                     THEN [d EXCEPT !.refreshing = FALSE]
                     ELSE d
    /\ UNCHANGED listVars

\* a colour chip: onPress={() => setColor(c)}, c one of options.colors
setColor(c) ==
    /\ DetailShown
    /\ c \in Range(optionsOf(detail).colors)
    /\ detail' = [detail EXCEPT !.color = c]
    /\ UNCHANGED listVars

\* a size chip: onPress={() => setSize(s)}, s one of options.sizes
setSize(s) ==
    /\ DetailShown
    /\ s \in Range(optionsOf(detail).sizes)
    /\ detail' = [detail EXCEPT !.size = s]
    /\ UNCHANGED listVars

\* q - 1 without Math.max
QtyMinusNoFloor(q) == q - 1

\* Math.max(1, q - 1)
QtyMinus(q) == IF q - 1 > 1 THEN q - 1 ELSE 1

\* the minus button: setQty((q) => Math.max(1, q - 1))
qtyMinus ==
    /\ DetailShown
    /\ detail' = [detail EXCEPT !.qty = QtyMinus(@)]
    /\ UNCHANGED listVars

\* the plus button: setQty((q) => q + 1)
qtyPlus ==
    /\ DetailShown
    /\ detail.qty < MaxQty
    /\ detail' = [detail EXCEPT !.qty = @ + 1]
    /\ UNCHANGED listVars

AllColors == {"Noir", "Blanc", "Beige", "Bleu", "Vert", "Argent", "Or", "Rose gold"}

AllSizes == {"XS", "S", "M", "L", "XL", "Standard", "Unique"}

NextDetail ==
    \/ \E i \in 1..MaxInFlight :
          \E o \in AllProductOutcomes : productFetched(i, o)
    \/ \E i \in 1..MaxInFlight :
          \E o \in AllSimilarOutcomes : similarFetched(i, o)
    \/ detailRetry
    \/ detailOnRefresh
    \/ \E c \in AllColors : setColor(c)
    \/ \E z \in AllSizes : setSize(z)
    \/ qtyMinus
    \/ qtyPlus

SpecDetail == InitDetail /\ [][NextDetail]_vars

-----------------------------------------------------------------------------
(* The loads and refreshes of the two screens, each screen on its own *)

InitRefresh == Init \/ InitDetail

NextRefresh ==
    \/ \E i \in 1..MaxInFlight, o \in GetProductsOutcomes : load(i, o)
    \/ \E i \in 1..MaxInFlight : TimerFires(i)
    \/ Retry
    \/ onRefresh
    \/ \E i \in 1..MaxInFlight :
          \E o \in AllProductOutcomes : productFetched(i, o)
    \/ \E i \in 1..MaxInFlight :
          \E o \in AllSimilarOutcomes : similarFetched(i, o)
    \/ detailRetry
    \/ detailOnRefresh

\* the request the detail screen has awaited longest ends
detailSettles ==
    \/ \E o \in AllProductOutcomes : productFetched(1, o)
    \/ \E o \in AllSimilarOutcomes : similarFetched(1, o)

\* no request pends for ever: the 12-second timer bounds the wait for fetch()
SpecRefresh ==
    InitRefresh /\ [][NextRefresh]_vars /\ WF_vars(Settles) /\ WF_vars(detailSettles)

-----------------------------------------------------------------------------
(* What the claims say, stated without the operators of the pipeline *)

Count(x, seq) == Cardinality({i \in DOMAIN seq : seq[i] = x})

SameLetter(a, b) ==
    a = b \/ \E i \in DOMAIN LowerCase : {a, b} = {LowerCase[i], UpperCase[i]}

\* the text without its leading and trailing blanks
Needle(text) ==
    LET inked == {i \in DOMAIN text : text[i] # " "}
    IN  IF inked = {} THEN <<>>
        ELSE LET first == CHOOSE i \in inked : \A j \in inked : i <= j
                 last  == CHOOSE i \in inked : \A j \in inked : j <= i
             IN  [k \in 1..(last - first + 1) |-> text[first + k - 1]]

\* needle occurs in field whatever the case of the letters; a missing field is ''
OccursIn(needle, field) ==
    /\ field # Undefined
    /\ \E off \in 0..(Len(field) - Len(needle)) :
          \A k \in DOMAIN needle : SameLetter(needle[k], field[off + k])

PassesText(p, text) ==
    \/ Needle(text) = <<>>
    \/ OccursIn(Needle(text), p.title)
    \/ OccursIn(Needle(text), p.description)

PassesCategory(p, cat) == cat = All \/ p.category = cat

Passes(p, text, cat) == PassesCategory(p, cat) /\ PassesText(p, text)

\* the items of seq that pass, in the order of seq
RECURSIVE Passing(_, _, _)
Passing(seq, text, cat) ==
    IF seq = <<>> THEN <<>>
    ELSE IF Passes(Head(seq), text, cat)
         THEN <<Head(seq)>> \o Passing(Tail(seq), text, cat)
         ELSE Passing(Tail(seq), text, cat)

\* the place of item x in a collection of distinct items
PlaceIn(x, seq) == CHOOSE i \in DOMAIN seq : seq[i] = x

Reverse(seq) == [i \in DOMAIN seq |-> seq[Len(seq) + 1 - i]]

PriceOf(p) == Number(p.price).val

TitleOf(p) == IF p.title = Undefined THEN <<>> ELSE p.title


-----------------------------------------------------------------------------
(* The claims *)

\* C1: the list holds exactly the items of the collection that pass both the
\* category predicate (category "All", or the item's category equal to it) and
\* the text predicate (the text trimmed and lowercased empty, or inside the
\* lowercased title or description): none that passes is missing, none that
\* fails is there.
C1_OutputIsExactlyThePassingItems ==
    rendered =>
        \A p \in Catalog :
            Count(p, filteredAndSorted) =
                IF Passes(p, query, category) THEN Count(p, state.data) ELSE 0

\* a text in another case inside blanks, a category that drops items: one of
\* three items is found by its description
C1_Witness ==
    /\ rendered
    /\ query = <<" ","R","e","D"," ">>
    /\ category = women
    /\ state.data = <<P1, P2, P6>>
    /\ filteredAndSorted = <<P2>>

\* C2: every element of the list is an element of the collection, no more often
\* than there; and with category "All" no item is left out for its category.
C2_OutputIsSubsetAndAllNeverExcludes ==
    rendered =>
        /\ \A i \in DOMAIN filteredAndSorted :
              /\ filteredAndSorted[i] \in Range(state.data)
              /\ Count(filteredAndSorted[i], filteredAndSorted)
                    <= Count(filteredAndSorted[i], state.data)
        /\ category = All =>
              \A i \in DOMAIN state.data :
                  PassesText(state.data[i], query) =>
                      state.data[i] \in Range(filteredAndSorted)

\* category "All" over items of three categories and of none, all shown
C2_Witness ==
    /\ rendered
    /\ category = All
    /\ query = <<" "," ">>
    /\ sort = "price_desc"
    /\ state.data = <<P4, P1, P3>>
    /\ Len(filteredAndSorted) = 3

\* C3: with category "All", empty text and sort key none the list is the whole
\* collection in its order; clearFilters leads there from any criteria and
\* leaves the fetched collection and the load state as they are.
C3_IdentityAndReset ==
    /\ [](rendered /\ category = All /\ query = <<>> /\ sort = "none"
            => filteredAndSorted = state.data)
    /\ [][clearFilters =>
            /\ state' = state
            /\ refreshing' = refreshing
            /\ filteredAndSorted' = state.data]_vars

\* the whole collection shown in its order, which is not the order of any key
C3_Witness ==
    /\ rendered
    /\ query = <<>> /\ category = All /\ sort = "none"
    /\ state.data = <<P5, P1, P2>>
    /\ filteredAndSorted = <<P5, P1, P2>>

\* the sort key of an item under each key that sorts
SameSortKey(a, b) ==
    IF sort \in {"price_asc", "price_desc"} THEN PriceOf(a) = PriceOf(b)
    ELSE TitleOf(a) = TitleOf(b)

\* C4: under every key that sorts, the descending ones too, two items of the
\* list with equal keys (equal price, equal title) stand in the order they have
\* in the collection.
C4_SortIsStable ==
    rendered /\ sort # "none" =>
        \A i, j \in DOMAIN filteredAndSorted :
            i < j /\ SameSortKey(filteredAndSorted[i], filteredAndSorted[j]) =>
                PlaceIn(filteredAndSorted[i], state.data)
                    < PlaceIn(filteredAndSorted[j], state.data)

\* descending prices with a tie: P3 (20, a string) before P1 (20) as in the
\* collection, after the sort moved both in front of P2 (10)
C4_Witness ==
    /\ rendered
    /\ sort = "price_desc"
    /\ state.data = <<P2, P3, P1>>
    /\ filteredAndSorted = <<P3, P1, P2>>

\* C5: the list is ordered by the selected key: prices do not decrease under
\* price_asc and do not increase under price_desc; titles (a missing title as
\* '') do not decrease under title_asc and do not increase under title_desc.
C5_OutputIsOrdered ==
    rendered =>
        \A i \in DOMAIN filteredAndSorted :
            i < Len(filteredAndSorted) =>
                LET a == filteredAndSorted[i]
                    b == filteredAndSorted[i + 1]
                IN  /\ sort = "price_asc"  => PriceOf(a) <= PriceOf(b)
                    /\ sort = "price_desc" => PriceOf(a) >= PriceOf(b)
                    /\ sort = "title_asc"  => localeCompare(TitleOf(a), TitleOf(b)) <= 0
                    /\ sort = "title_desc" => localeCompare(TitleOf(a), TitleOf(b)) >= 0

\* titles ascending: the missing title first, then "blue hat" before "Blue Hat"
C5_Witness ==
    /\ rendered
    /\ sort = "title_asc"
    /\ state.data = <<P2, P6, P4>>
    /\ filteredAndSorted = <<P4, P6, P2>>


DistinctPrices(seq) ==
    \A i, j \in DOMAIN seq : i # j => PriceOf(seq[i]) # PriceOf(seq[j])

\* C6: for the same collection, text and category, when no two items of the
\* list have the same price, the price_desc list is the price_asc list reversed.
C6_DescIsAscReversed ==
    [][(/\ rendered
        /\ {sort, sort'} = {"price_asc", "price_desc"}
        /\ state' = state /\ query' = query /\ category' = category
        /\ DistinctPrices(filteredAndSorted))
            => filteredAndSorted' = Reverse(filteredAndSorted)]_vars

\* three prices, none twice, shown descending
C6_Witness ==
    /\ rendered
    /\ sort = "price_desc"
    /\ state.data = <<P2, P5, P1>>
    /\ filteredAndSorted = <<P5, P1, P2>>

\* C7: with sort key none the list is the items that pass the filter, in the
\* order they have in the collection, whatever the text and the category.
C7_NoneKeepsCollectionOrder ==
    rendered /\ sort = "none" =>
        filteredAndSorted = Passing(state.data, query, category)

\* two of three items pass, and stay in an order no key would give them
C7_Witness ==
    /\ rendered
    /\ sort = "none"
    /\ category = women
    /\ state.data = <<P2, P1, P6>>
    /\ filteredAndSorted = <<P2, P6>>

\* C8: the lists of the five sort keys hold the same items as often, and the
\* count shown is the number of items that pass the filter, under every key.
C8_SortKeepsMembership ==
    rendered =>
        /\ \A k \in SortKey : \A p \in Catalog :
              Count(p, filteredAndSorted) =
                  Count(p, filteredAndSortedRun(state.data, query, category, k).arr)
        /\ Len(filteredAndSorted) =
              Cardinality({i \in DOMAIN state.data :
                              Passes(state.data[i], query, category)})

\* a sorted list whose items tie on the key: two titles '' and two "Blue Hat"
C8_Witness ==
    /\ rendered
    /\ sort = "title_desc"
    /\ state.data = <<P4, P2, P3>>
    /\ Len(filteredAndSorted) = 3

\* the categories the products of the collection carry
PresentCategories(seq) ==
    {seq[i].category : i \in DOMAIN seq} \ {Undefined, <<>>}

\* C9: the category list starts with "All"; after it comes each distinct
\* non-empty category of the collection once (case matters), ascending, and
\* nothing else; a product without category adds no entry.
C9_CategoryList ==
    rendered =>
        /\ Len(categories) >= 1
        /\ categories[1] = All
        /\ Range(Tail(categories)) = PresentCategories(state.data)
        /\ Len(Tail(categories)) = Cardinality(PresentCategories(state.data))
        /\ \A i, j \in DOMAIN categories :
              1 < i /\ i < j => localeCompare(categories[i], categories[j]) < 0

\* "men" and "Men" are two entries, in sorted order, and the product without
\* category adds none
C9_Witness ==
    /\ rendered
    /\ state.data = <<P3, P4, P1>>
    /\ categories = <<All, men, Men>>

\* C10: no handler of the list changes the fetched collection, under any sort
\* key, and going back to sort key none shows the items that pass in the order
\* of the fetched collection.
C10_PipelineLeavesCollection ==
    [][/\ state' = state
       /\ sort' = "none" =>
             filteredAndSorted' = Passing(state.data, query', category')]_vars

\* a key that reorders the list was run on the collection, which kept its order
C10_Witness ==
    /\ rendered
    /\ sort = "price_asc"
    /\ state.data = <<P1, P2, P6>>
    /\ filteredAndSorted = <<P6, P2, P1>>

-----------------------------------------------------------------------------
(* C11..C20: the list screen with its loads *)

\* C11: after any sequence of text edits, category selections, sort changes,
\* resets and completed loads, the list on screen is the pipeline applied to
\* the collection the state holds now and to the criteria set now, and to
\* nothing else; while the state holds no collection the pipeline runs on the
\* empty sequence.
C11_ListShownIsPipelineOfCurrent ==
    ~crashed =>
        /\ products = productsOf(state)
        /\ filteredAndSorted \in
              {run.arr : run \in filteredAndSortedRuns(productsOf(state), query, category, sort)}
        /\ \A p \in Catalog :
              Count(p, filteredAndSorted) = Count(p, Passing(productsOf(state), query, category))

\* a second catalog has replaced the first, and text and sort were changed
C11_Witness ==
    /\ ListShown
    /\ state.data = <<P5, P6, P4, P2>>
    /\ query = <<"h","a","t">>
    /\ sort = "price_desc"
    /\ filteredAndSorted = <<P2, P6>>


\* C12: whenever the state of the list screen is success its data is a
\* sequence of products, whatever response request() took for a success; and
\* whenever the state is loading or error the input of the pipeline is the
\* empty sequence.  The code does not keep the first half: an OK response whose
\* JSON cannot be read makes request() return null, an OK response that is no
\* JSON makes it return a string, and load() puts either into the state.
C12_SuccessDataIsACollection ==
    /\ state.status = "success" =>
          /\ state.dataType = "array"
          /\ \A i \in DOMAIN state.data : state.data[i] \in Catalog
    /\ state.status \in {"loading", "error"} => productsOf(state) = <<>> /\ products = <<>>

\* C13: a missing title or description never makes the pipeline fail.  An item
\* with neither passes the text predicate exactly when the trimmed text is
\* empty, and it is sorted by title as the empty string is: ascending, the
\* items before it are the items of empty or missing title that precede it in
\* the collection; descending, the items after it are the items of empty or
\* missing title that follow it in the collection.  Every such input has a
\* result.
C13_MissingTitleAndDescription ==
    rendered =>
        /\ ~crashed
        /\ \A p \in Range(state.data) :
              (p.title = Undefined /\ p.description = Undefined) =>
                /\ p \in Range(filteredAndSorted)
                      <=> (PassesCategory(p, category) /\ Needle(query) = <<>>)
                /\ \A q \in Range(filteredAndSorted) \ {p} :
                      p \in Range(filteredAndSorted) =>
                        /\ sort = "title_asc" =>
                              (PlaceIn(q, filteredAndSorted) < PlaceIn(p, filteredAndSorted)
                                <=> /\ q.title \in {Undefined, <<>>}
                                    /\ PlaceIn(q, state.data) < PlaceIn(p, state.data))
                        /\ sort = "title_desc" =>
                              (PlaceIn(q, filteredAndSorted) > PlaceIn(p, filteredAndSorted)
                                <=> /\ q.title \in {Undefined, <<>>}
                                    /\ PlaceIn(q, state.data) > PlaceIn(p, state.data))

\* the item without title and description, sorted among titled and untitled
\* items under a text of blanks
C13_Witness ==
    /\ rendered
    /\ ~crashed
    /\ query = <<" "," ">>
    /\ sort = "title_asc"
    /\ state.data = <<P1, P5, P4>>
    /\ filteredAndSorted = <<P5, P4, P1>>

\* C14: when the category selected is the category of no item (a category,
\* not the sentinel 'All', which stands for no selection), the list is the
\* empty sequence for every text and every sort key, the render does not
\* throw, and the steps taken under such a category leave the state, a
\* success, as it is.
C14_UnknownCategoryGivesEmptyList ==
    /\ [](  (rendered /\ category # All
               /\ \A p \in Range(state.data) : p.category # category)
           => (filteredAndSorted = <<>> /\ ListShown))
    /\ [][  (category' # All /\ \A p \in Range(state.data) : p.category # category')
           => (state' = state /\ state'.status = "success" /\ ~crashed')]_vars

\* a category of no item, under a text and a sort key, after a step
C14_Witness ==
    /\ rendered
    /\ category = kids
    /\ state.data = <<P1, P4, P2>>
    /\ query = <<"h","a","t">>
    /\ sort = "price_desc"
    /\ filteredAndSorted = <<>>
    /\ ListShown

\* C15: when the 12-second timer of a request fires before fetch() has settled,
\* the request fails with the Error 'Temps de réponse dépassé (timeout).' and
\* the screen ends in the error state with that message, never in success; a
\* request that settles before its timer fires never reports a timeout, and
\* whatever its outcome its timer is cleared: the armed timers are those of
\* the pending requests, one each.  (The two step formulas are written by
\* contraposition: no step of TimerFires ends elsewhere, no step of load ends
\* with the timeout message or leaves the timer armed.)
C15_TimeoutAndTimerCleared ==
    /\ [](timers = Len(inflight))
    /\ [][\A i \in DOMAIN inflight :
            (state' # Error(TimeoutMessage) \/ crashed') => ~TimerFires(i)]_vars
    /\ [][\A i \in DOMAIN inflight, o \in GetProductsOutcomes :
            (state'.message = TimeoutMessage \/ timers' # timers - 1) => ~load(i, o)]_vars

\* the timer of a pull-to-refresh has fired: the list gave way to the error view
C15_Witness ==
    /\ state = Error(TimeoutMessage)
    /\ products = <<>>
    /\ inflight = <<>>
    /\ timers = 0
    /\ sort = "price_asc"
    /\ ~refreshing

\* C16: every load of the list screen settles in the end.  Each fetch getting
\* a response or having its timer fire, the state leaves loading for success
\* or error and does not stay loading for ever; and a full set of pending
\* loads does not stay full.
C16_LoadEventuallySettles ==
    (state.status = "loading" \/ Len(inflight) = MaxInFlight)
        ~> (state.status \in {"success", "error"} /\ Len(inflight) < MaxInFlight)

\* the first load has settled with a collection and nothing is pending
C16_Witness ==
    /\ state = Success(<<P1, P2>>)
    /\ filteredAndSorted = <<P1, P2>>
    /\ inflight = <<>>
    /\ timers = 0
    /\ ~refreshing

\* the fetches that fail without the timer: a response that is not OK, a
\* rejection
FailedFetches == {r \in Responses : r.kind # "response" \/ r.status \notin 200..299}

\* the message the screen is to show for a failed fetch
ExpectedMessage(r) ==
    CASE r.kind = "other" -> "Erreur inconnue"
      [] r.kind = "error" -> r.message
      [] r.kind = "response" ->
            IF /\ r.contentType \in {"application/json", "application/json; charset=utf-8"}
               /\ ~r.bodyFails /\ r.body.type = "object"
               /\ r.body.hasMessage /\ r.body.text # ""
            THEN r.body.text
            ELSE IF /\ r.contentType \notin {"application/json", "application/json; charset=utf-8"}
                    /\ ~r.bodyFails /\ r.body.type = "string" /\ r.body.text # ""
            THEN r.body.text
            ELSE IF r.status = 404 THEN "Erreur API (404)" ELSE "Erreur API (500)"

\* C17: every failed fetch reaches the screen as one message in the error
\* state.  A response that is not OK gives the message property of its JSON
\* body when there is one and it is not empty, else its text body when that is
\* not empty, else 'Erreur API (<status>)'; a thrown value that is no Error
\* gives 'Erreur inconnue'; and the load that ends so leaves the screen in the
\* error state with that message and without products.  (By contraposition: no
\* step of load on a failed fetch ends elsewhere.)
C17_FailureReachesScreenAsMessage ==
    [][\A i \in DOMAIN inflight :
         Len(inflight') < Len(inflight) =>
           \A r \in FailedFetches :
             (state' # Error(ExpectedMessage(r)) \/ products' # <<>>
                \/ filteredAndSorted' # <<>>)
               => ~load(i, request(r))]_vars

\* a refresh of a sorted list was answered 404 with a JSON message
C17_Witness ==
    /\ state = Error("Not found")
    /\ products = <<>>
    /\ filteredAndSorted = <<>>
    /\ sort = "title_desc"
    /\ inflight = <<>>

\* C18: the state of the list screen is always one of loading, error with a
\* message, success with data; it starts as loading; each load that settles
\* sets it to success with exactly what was fetched or to error with the
\* message of the failure; and no step, retry and pull-to-refresh included,
\* leads back to loading once loading was left.
C18_UiStateMachine ==
    /\ state = Loading
    /\ [](\/ state = Loading
          \/ state.status = "error" /\ state = Error(state.message)
          \/ state.status = "success" /\ state.message = "")
    /\ [][\A i \in DOMAIN inflight :
            Len(inflight') < Len(inflight) =>
              \A o \in GetProductsOutcomes :
                (\/ o.ok /\ (state'.status # "success" \/ state'.data # o.data
                                \/ state'.dataType # o.dataType)
                 \/ ~o.ok /\ state' # Error(o.message))
                   => ~load(i, o)]_vars
    /\ [][state.status # "loading" => state'.status # "loading"]_vars

\* two pulls to refresh are pending and the list is still on screen
C18_Witness ==
    /\ state = Success(<<P2, P3, P1, P4>>)
    /\ refreshing
    /\ Len(inflight) = 2
    /\ \A k \in DOMAIN inflight : inflight[k].refresh
    /\ filteredAndSorted = <<P2, P3, P1, P4>>

\* the price of p does not coerce to a number
Malformed(p) == Number(p.price).nan

\* seq holds the items of prices that coerce in the order of key
WellFormedInOrder(seq, key) ==
    \A i, j \in DOMAIN seq :
        (i < j /\ ~Malformed(seq[i]) /\ ~Malformed(seq[j])) =>
            /\ key = "price_asc" => PriceOf(seq[i]) <= PriceOf(seq[j])
            /\ key = "price_desc" => PriceOf(seq[i]) >= PriceOf(seq[j])

\* C19, as the claim states it: with prices that do not coerce to a number the
\* sorts by price end without an error and return a permutation of the
\* filtered items, and only the place of the malformed items is open: the
\* items of well-formed price stand in the order of their prices.
C19_OnlyMalformedItemsUnplaced ==
    rendered =>
        /\ ~crashed
        /\ \A p \in CatalogNaN :
              Count(p, filteredAndSorted) = Count(p, Passing(state.data, query, category))
        /\ WellFormedInOrder(filteredAndSorted, sort)

\* C19, amended: with prices that do not coerce to a number the sorts by price
\* end without an error and return a permutation of the filtered items, none
\* lost and none twice; the output is in the order of the prices when no
\* passing item is malformed, and otherwise its order is open as a whole, that
\* of the well-formed items among themselves included.
C19_PermutationUnderMalformedPrices ==
    rendered =>
        /\ ~crashed
        /\ Len(filteredAndSorted) = Len(Passing(state.data, query, category))
        /\ \A p \in CatalogNaN :
              Count(p, filteredAndSorted) = Count(p, Passing(state.data, query, category))
        /\ (\A p \in Range(filteredAndSorted) : ~Malformed(p))
              => WellFormedInOrder(filteredAndSorted, sort)

\* a malformed price between two well-formed ones: the sort by price has ended
\* and left 20 before 10
C19_Witness ==
    /\ rendered
    /\ ~crashed
    /\ sort = "price_asc"
    /\ state.data = <<P1, P7, P2>>
    /\ filteredAndSorted = <<P1, P7, P2>>

\* C20: two loads being in flight together, the state after both have settled
\* is the outcome of the load started last, in whatever order the two answers
\* arrive: the answer to a load that a later load has overtaken changes
\* nothing any more.  The code does not keep this: load() sets the state with
\* whatever answer arrives, so the last to arrive wins.
C20_LastStartedLoadWins ==
    [][\A i \in DOMAIN inflight :
         (inflight[i].stale /\ inflight' = AfterSettle(inflight, i)) => state' = state]_vars

-----------------------------------------------------------------------------
(* C21..C27: the detail screen, and the list screen again *)

\* the calls of load() among calls that onRefresh awaits
Refreshes(calls) == {k \in DOMAIN calls : calls[k].refresh}

\* C21: in both screens onRefresh sets refreshing, and the end of its load,
\* successful or not, resets it; refreshing is never true with no refresh in
\* flight; and, the fetches settling, it becomes false in the end.  The list
\* screen is meant as long as it stands: a render that threw has taken its
\* state away.
C21_RefreshingFollowsTheRefresh ==
    /\ [](refreshing => Refreshes(inflight) # {})
    /\ [](detail.refreshing => Refreshes(detail.inflight) # {})
    /\ [][Cardinality(Refreshes(inflight')) > Cardinality(Refreshes(inflight))
            => refreshing']_vars
    /\ [][Cardinality(Refreshes(detail.inflight')) > Cardinality(Refreshes(detail.inflight))
            => detail.refreshing']_vars
    /\ [][Cardinality(Refreshes(inflight')) < Cardinality(Refreshes(inflight))
            => ~refreshing']_vars
    /\ [][Cardinality(Refreshes(detail.inflight')) < Cardinality(Refreshes(detail.inflight))
            => ~detail.refreshing']_vars
    /\ (refreshing /\ ~crashed) ~> (~refreshing \/ crashed)
    /\ detail.refreshing ~> ~detail.refreshing

\* the detail screen was pulled to refresh; the product is back and the
\* similar products are awaited
C21_Witness ==
    /\ detail.mounted
    /\ detail.refreshing
    /\ Len(detail.inflight) = 1
    /\ detail.inflight[1].refresh
    /\ detail.inflight[1].phase = "similar"
    /\ detail.state.status = "success"

\* the calls of load() that await the product, and those that await the
\* products of its category
Awaiting(calls, phase) == {k \in DOMAIN calls : calls[k].phase = phase}

\* C22: the quantity of the detail screen is an integer >= 1 in every state;
\* it starts at 1, the minus button at 1 leaves 1 and takes 1 off above it,
\* the plus button adds exactly 1, and a successful load of the product sets
\* it to 1.
C22_QuantityAtLeastOne ==
    /\ detail.qty = 1
    /\ [](detail.qty \in Nat /\ detail.qty >= 1)
    /\ [][qtyMinus => detail.qty' = (IF detail.qty = 1 THEN 1 ELSE detail.qty - 1)]_vars
    /\ [][qtyPlus => detail.qty' = detail.qty + 1]_vars
    /\ [][(/\ Cardinality(Awaiting(detail.inflight', "product"))
                < Cardinality(Awaiting(detail.inflight, "product"))
            /\ detail.state'.status = "success")
            => detail.qty' = 1]_vars

\* the plus button was pressed as often as the model lets it
C22_Witness == DetailShown /\ detail.qty = MaxQty

\* the route parameters of RouteParams for which the claim expects no fetch:
\* missing, no string, '', '0', 'abc'
InvalidRoutes ==
    {Undefined, <<"array">>, <<"string", <<>>>>, <<"string", <<"0">>>>,
     <<"string", <<"a","b","c">>>>}

\* the id the other route parameters parse to
RouteId(raw) ==
    CASE raw = <<"string", <<" ","1"," ">>>> -> 1
      [] raw = <<"string", <<"4">>>> -> 4
      [] raw = <<"string", <<"5">>>> -> 5
      [] raw = <<"string", <<"9">>>> -> 9
      [] raw = <<"string", <<"1","0">>>> -> 10
      [] raw = <<"string", <<"1","1">>>> -> 11

\* C23: with a route id that is missing, no string, no finite number or 0,
\* load fetches nothing and the state is the error 'ID produit invalide.';
\* with any other, every load sets the loading state and fetches the product
\* of exactly the id the parameter parses to.
C23_InvalidIdFetchesNothing ==
    /\ [](detail.params \in InvalidRoutes =>
            /\ detail.inflight = <<>>
            /\ detail.state = Error("ID produit invalide."))
    /\ (detail.params \notin InvalidRoutes =>
            /\ detail.state = Loading
            /\ Len(detail.inflight) = 1)
    /\ [](detail.params \notin InvalidRoutes =>
            \A k \in DOMAIN detail.inflight : detail.inflight[k].id = RouteId(detail.params))
    /\ [][(detail.params \notin InvalidRoutes /\ (detailRetry \/ detailOnRefresh)) =>
            /\ detail.state' = Loading
            /\ Len(detail.inflight') = Len(detail.inflight) + 1
            /\ detail.inflight'[Len(detail.inflight')].phase = "product"]_vars

\* the route parameter ' 1 ': the product of id 1 is being fetched again after
\* a refresh
C23_Witness ==
    /\ detail.params = <<"string", <<" ","1"," ">>>>
    /\ detail.state = Loading
    /\ \E k \in DOMAIN detail.inflight :
          detail.inflight[k].refresh /\ detail.inflight[k].id = 1

\* C24: when the fetch of the similar products fails after the product was
\* fetched, the state becomes the error with that failure's message, the
\* product gone from it, and similarLoading is false; similarLoading is false
\* after every outcome of that fetch.
C24_SimilarFailureIsTheError ==
    [][Cardinality(Awaiting(detail.inflight', "similar"))
         < Cardinality(Awaiting(detail.inflight, "similar"))
       => /\ ~detail.similarLoading'
          /\ \A i \in Awaiting(detail.inflight, "similar") :
               \A o \in SimilarOutcomes[detail.inflight[i].id] :
                 (~o.ok /\ similarFetched(i, o)) =>
                     /\ detail.state'.status = "error"
                     /\ detail.state'.message = o.message
                     /\ detail.state'.data = <<>>]_vars

\* the products of the category were answered with HTTP 500
C24_Witness ==
    /\ detail.mounted
    /\ detail.state =
         Error(request(Response(500, "text/plain", JsString("Internal Server Error"), FALSE)).message)
    /\ ~detail.similarLoading
    /\ detail.inflight = <<>>

\* C25: while the list is shown, the selected category is an entry of the
\* category list derived from the catalog on display.
C25_SelectedCategoryIsListed ==
    (ListShown /\ ~crashed) => category \in Range(categories)

\* a step in which a fetch of the product ends in the success state
ProductLoaded ==
    /\ Cardinality(Awaiting(detail.inflight', "product"))
         < Cardinality(Awaiting(detail.inflight, "product"))
    /\ detail.state'.status = "success"

\* C26: while the detail screen shows a product, the selected colour and the
\* selected size are among the options of the product's category; every
\* successful load selects the first colour and the first size of them.
C26_SelectionAmongOptions ==
    /\ [](DetailShown =>
            /\ detail.color \in Range(getDefaultOptions(CategoryOfData(detail.state)).colors)
            /\ detail.size \in Range(getDefaultOptions(CategoryOfData(detail.state)).sizes))
    /\ [][ProductLoaded =>
            /\ detail.color' = getDefaultOptions(CategoryOfData(detail.state')).colors[1]
            /\ detail.size' = getDefaultOptions(CategoryOfData(detail.state')).sizes[1]]_vars

\* the product of jewelery with the last of its colours chosen
C26_Witness ==
    /\ DetailShown
    /\ CategoryOfData(detail.state) = jewelery
    /\ detail.color = "Rose gold"
    /\ detail.size = "Unique"

\* the first n items of a list
FirstItems(list, n) == [k \in 1..(IF Len(list) < n THEN Len(list) ELSE n) |-> list[k]]

\* a list without the items of the id
WithoutId(list, id) ==
    LET F[k \in 0..Len(list)] ==
            IF k = 0 THEN <<>>
            ELSE IF list[k].id = id THEN F[k - 1] ELSE Append(F[k - 1], list[k])
    IN  F[Len(list)]

\* C27: the similar list never holds the product on display and never more
\* than 12 items; when the fetch of the category answers a list, the similar
\* list becomes the first 12 items of that list without the product, in the
\* order fetched; a product with a category has that fetch issued, a product
\* without one has none issued and the similar list emptied.
C27_SimilarIsCategoryWithoutProduct ==
    /\ []((DetailShown /\ detail.state.dataType = "object") =>
            /\ \A k \in DOMAIN detail.similar : detail.similar[k].id # detail.state.data[1].id
            /\ Len(detail.similar) <= 12)
    /\ [](\A k \in Awaiting(detail.inflight, "similar") :
            Truthy(detail.inflight[k].product[1].category))
    /\ [][Cardinality(Awaiting(detail.inflight', "similar"))
             < Cardinality(Awaiting(detail.inflight, "similar"))
           => \A i \in Awaiting(detail.inflight, "similar") :
                \A o \in SimilarOutcomes[detail.inflight[i].id] :
                  (o.ok /\ o.dataType = "array" /\ similarFetched(i, o)) =>
                     detail.similar' =
                        FirstItems(WithoutId(o.data, detail.inflight[i].product[1].id), 12)]_vars
    /\ [][ProductLoaded =>
            IF Truthy(CategoryOfData(detail.state'))
            THEN Cardinality(Awaiting(detail.inflight', "similar"))
                    = Cardinality(Awaiting(detail.inflight, "similar")) + 1
            ELSE /\ detail.similar' = <<>>
                 /\ Cardinality(Awaiting(detail.inflight', "similar"))
                      = Cardinality(Awaiting(detail.inflight, "similar"))]_vars

\* the category answered 14 products, the product on display among them: 12
\* of the other 13 are listed
C27_Witness ==
    /\ DetailShown
    /\ detail.state.dataType = "object"
    /\ detail.inflight = <<>>
    /\ Len(detail.similar) = 12
    /\ detail.similar[3].id # detail.state.data[1].id

=============================================================================
